---- MODULE Spec2Model ----
(***************************************************************************)
(* A model of the Modbus server engine of src/server.go: the register      *)
(* store, the function dispatch table, the request channel with the single *)
(* handler goroutine, Close, and the gob checkpoint.                       *)
(*                                                                         *)
(* Goroutines interleave at every access to shared memory.  The address    *)
(* space (65536 entries in the source) is scaled down to MemSize entries;  *)
(* register addresses are 0-based as on the wire and the arrays are        *)
(* sequences, so address a lives at index a + 1.                           *)
(***************************************************************************)
EXTENDS Integers, Sequences, FiniteSets, TLC

\* ------------------------------------------------------------------ bounds
MemSize == 2          \* entries per register array (65536 in the source)
MaxRequests == 2      \* requests the adapters create in one run
MaxReadWrites == 3    \* requests in a run of register reads and writes only
NumAdapters == 2      \* connection goroutines
MaxRegisterCalls == 1 \* RegisterFunctionHandler calls in one run
MaxListeners == 1     \* TCP listeners opened in one run
MaxPorts == 1         \* serial ports opened in one run
MaxCloseCalls == 1    \* Close calls in one run
MaxRestarts == 2      \* engines constructed after the first
MaxSaves == 1         \* saveState calls per engine

\* ------------------------------------------------------- program constants
NumFunctions == 256   \* function [256](func...)
TwoSerializers == 1 + 1
NumSerializers == 1   \* go s.handler()

Nil == "nil"
None == "none"
NoRequest == [id |-> 0, conn |-> 0, frame |-> [fn |-> 0, data |-> <<>>]]

FuncCodes == 0 .. (NumFunctions - 1)
Addrs == 0 .. (MemSize - 1)
Adapters == 1 .. NumAdapters
Serializers == 1 .. NumSerializers

\* ---------------------------------------------------------------- bytes
Hi(v) == v \div 256
Lo(v) == v % 256
U16(hi, lo) == hi * 256 + lo
Uint16ToBytes(v) == <<Hi(v), Lo(v)>>

RECURSIVE Uint16sToBytes(_)
Uint16sToBytes(vs) ==
    IF vs = <<>> THEN <<>> ELSE Uint16ToBytes(Head(vs)) \o Uint16sToBytes(Tail(vs))

RECURSIVE BytesToUint16(_)
BytesToUint16(bs) ==
    IF Len(bs) < 2 THEN <<>>
    ELSE <<U16(bs[1], bs[2])>> \o BytesToUint16(SubSeq(bs, 3, Len(bs)))

Zeros(n) == [i \in 1 .. n |-> 0]

\* ------------------------------------------------------------ exceptions
\* An *Exception is a pointer: ref names the variable pointed to, code is
\* its value.  handle compares pointers (exception != &Success).
Success == [ref |-> "Success", code |-> 0]
IllegalFunction == [ref |-> "IllegalFunction", code |-> 1]
IllegalDataAddress == [ref |-> "IllegalDataAddress", code |-> 2]
SlaveDeviceFailure == [ref |-> "SlaveDeviceFailure", code |-> 4]
NoException == [ref |-> None, code |-> 0]

\* ------------------------------------------------------------------ frames
\* A frame is its function code and its data; a response template also
\* records what was attached to it.
GetFunction(frame) == frame.fn
GetData(frame) == frame.data
Copy(frame) ==
    [fn |-> frame.fn, data |-> frame.data, exc |-> NoException, calls |-> <<>>]
NoResponse == [fn |-> 0, data |-> <<>>, exc |-> NoException, calls |-> <<>>]
SetData(resp, data) ==
    [resp EXCEPT !.data = data, !.calls = Append(@, "SetData")]
SetException(resp, exception) ==
    [resp EXCEPT !.exc = exception, !.calls = Append(@, "SetException")]
Bytes(resp) ==
    IF resp.exc # NoException THEN <<resp.fn + 128, resp.exc.code>>
    ELSE <<resp.fn>> \o resp.data

\* ---------------------------------------------------------- request frames
Values == {1, 300}

WriteRegisterFrame(a, v) == [fn |-> 6, data |-> Uint16ToBytes(a) \o Uint16ToBytes(v)]
ReadRegistersFrame(a, n) == [fn |-> 3, data |-> Uint16ToBytes(a) \o Uint16ToBytes(n)]
WriteRegistersFrame(a, vs) ==
    [fn |-> 16,
     data |-> Uint16ToBytes(a) \o Uint16ToBytes(Len(vs)) \o <<2 * Len(vs)>>
              \o Uint16sToBytes(vs)]
WriteCoilFrame(a, on) ==
    [fn |-> 5, data |-> Uint16ToBytes(a) \o (IF on THEN <<255, 0>> ELSE <<0, 0>>)]
CustomFrame == [fn |-> 65, data |-> <<7>>]
UnknownFrame == [fn |-> 99, data |-> <<9>>]

WriteFrames == {WriteRegisterFrame(a, v) : a \in Addrs, v \in Values}
ReadFrames ==
    {ReadRegistersFrame(a, 1) : a \in Addrs} \cup {ReadRegistersFrame(MemSize - 1, 2)}
BlockFrames == {WriteRegistersFrame(0, <<300, 300>>)}
OverflowFrames == {WriteRegistersFrame(MemSize - 1, <<1, 1>>)}
OtherFrames == {WriteCoilFrame(0, TRUE), CustomFrame, UnknownFrame}
AllFrames == WriteFrames \cup ReadFrames \cup BlockFrames \cup OtherFrames
LiveFrames == {WriteRegisterFrame(0, 300), CustomFrame} \cup BlockFrames
CloseFrames == {WriteRegisterFrame(0, 300), ReadRegistersFrame(0, 1)} \cup BlockFrames
RegisterFrames == WriteFrames \cup ReadFrames \cup BlockFrames \cup OverflowFrames

\* ---------------------------------------------------------------- handlers
\* A handler takes the register store and the request frame's data and
\* returns the store it leaves, its payload and its exception.
Store(di, co, hr, ir) == [di |-> di, co |-> co, hr |-> hr, ir |-> ir]
Result(mem, data, exception) == [mem |-> mem, data |-> data, exception |-> exception]

RegisterAddress(data) == U16(data[1], data[2])
Second(data) == U16(data[3], data[4])

ReadRegs(regs, mem, data) ==
    LET register == RegisterAddress(data)
        numRegs == Second(data)
        endRegister == register + numRegs
    IN  IF endRegister > MemSize
        THEN Result(mem, <<>>, IllegalDataAddress)
        ELSE Result(mem,
                    <<numRegs * 2>>
                        \o Uint16sToBytes(SubSeq(regs, register + 1, endRegister)),
                    Success)

ReadHoldingRegisters(mem, data) == ReadRegs(mem.hr, mem, data)
ReadInputRegisters(mem, data) == ReadRegs(mem.ir, mem, data)

WriteSingleCoil(mem, data) ==
    LET register == RegisterAddress(data)
        value == Second(data)
    IN  Result([mem EXCEPT !.co[register + 1] = IF value # 0 THEN 1 ELSE 0],
               SubSeq(data, 1, 4), Success)

WriteHoldingRegister(mem, data) ==
    LET register == RegisterAddress(data)
        value == Second(data)
    IN  Result([mem EXCEPT !.hr[register + 1] = value], SubSeq(data, 1, 4), Success)

\* WriteHoldingRegisters copies the values into the array one element after
\* the other: CopyCount is how many elements the copy moves, CopyStep moves
\* element i (1-based) of them.
BlockValues(data) == BytesToUint16(SubSeq(data, 6, Len(data)))
CopyCount(data) ==
    LET room == MemSize - RegisterAddress(data)
        n == Len(BlockValues(data))
    IN  IF room < 0 THEN 0 ELSE IF n < room THEN n ELSE room
CopyStep(hr, data, i) == [hr EXCEPT ![RegisterAddress(data) + i] = BlockValues(data)[i]]

RECURSIVE CopyAll(_, _, _)
CopyAll(hr, data, i) ==
    IF i > CopyCount(data) THEN hr ELSE CopyAll(CopyStep(hr, data, i), data, i + 1)

BlockLengthOk(data) == (Len(data) - 5) \div 2 = Second(data)
BlockResult(mem, data) ==
    IF CopyCount(data) = Second(data)
    THEN Result(mem, SubSeq(data, 1, 4), Success)
    ELSE Result(mem, <<>>, IllegalDataAddress)

WriteHoldingRegisters(mem, data) ==
    IF ~BlockLengthOk(data)
    THEN Result(mem, <<>>, IllegalDataAddress)
    ELSE BlockResult([mem EXCEPT !.hr = CopyAll(mem.hr, data, 1)], data)

\* Handlers an application registers: one returns fixed bytes and Success,
\* one returns bytes together with an exception.
FixedBytes == <<170, 187>>
FixedHandler(mem, data) == Result(mem, FixedBytes, Success)
FailingHandler(mem, data) == Result(mem, <<1>>, SlaveDeviceFailure)
\* A handler that returns the address of an Exception variable of its own
\* whose value is Success (ex := Success; return data, &ex).
OwnSuccess == [ref |-> "ex", code |-> Success.code]
OwnSuccessHandler(mem, data) == Result(mem, FixedBytes, OwnSuccess)

\* The whole effect of handler h on the store mem for a request's data.
Exec(h, mem, data) ==
    CASE h = "ReadHoldingRegisters" -> ReadHoldingRegisters(mem, data)
      [] h = "ReadInputRegisters" -> ReadInputRegisters(mem, data)
      [] h = "WriteSingleCoil" -> WriteSingleCoil(mem, data)
      [] h = "WriteHoldingRegister" -> WriteHoldingRegister(mem, data)
      [] h = "WriteHoldingRegisters" -> WriteHoldingRegisters(mem, data)
      [] h = "FixedHandler" -> FixedHandler(mem, data)
      [] h = "FailingHandler" -> FailingHandler(mem, data)
      [] h = "OwnSuccessHandler" -> OwnSuccessHandler(mem, data)
      [] OTHER -> Result(mem, <<>>, SlaveDeviceFailure)

\* The default functions NewServer installs.
DefaultSwapped(code) ==
    CASE code = 1 -> "ReadCoils"
      [] code = 2 -> "ReadDiscreteInputs"
      [] code = 3 -> "ReadInputRegisters"
      [] code = 4 -> "ReadHoldingRegisters"
      [] code = 5 -> "WriteSingleCoil"
      [] code = 6 -> "WriteHoldingRegister"
      [] code = 15 -> "WriteMultipleCoils"
      [] code = 16 -> "WriteHoldingRegisters"
      [] OTHER -> Nil
DefaultFunction(code) ==
    CASE code = 1 -> "ReadCoils"
      [] code = 2 -> "ReadDiscreteInputs"
      [] code = 3 -> "ReadHoldingRegisters"
      [] code = 4 -> "ReadInputRegisters"
      [] code = 5 -> "WriteSingleCoil"
      [] code = 6 -> "WriteHoldingRegister"
      [] code = 15 -> "WriteMultipleCoils"
      [] code = 16 -> "WriteHoldingRegisters"
      [] OTHER -> Nil

\* The dispatch table s.function holds one function value per code, nil
\* where none is registered; it is kept as the map of its non-nil entries.
Entry(table, code) == IF code \in DOMAIN table THEN table[code] ELSE Nil
Stored(table, code, h) ==
    [c \in (DOMAIN table \ {code}) \cup (IF h = Nil THEN {} ELSE {code}) |->
        IF c = code THEN h ELSE table[c]]
DefaultTable ==
    [code \in {c \in FuncCodes : DefaultFunction(c) # Nil} |-> DefaultFunction(code)]

\* ------------------------------------------------------------------ state
VARIABLES
    DiscreteInputs, Coils, HoldingRegisters, InputRegisters, \* the register store
    function,      \* the dispatch table: function code -> handler, for the non-nil entries
    listeners,     \* the TCP listeners, each "open" or "closed"
    ports,         \* the serial ports, each "open" or "closed"
    sendq,         \* requestChan: the requests of the senders blocked on it
    link,          \* per adapter: "none", or the transport it reads from
    blocked,       \* per adapter: whether it is blocked sending on requestChan
    pc,            \* per handler goroutine: where it is in handler/handle
    request,       \* per handler goroutine: the request it received
    response,      \* per handler goroutine: the response being built
    checked,       \* per handler goroutine: the table entry the nil test read
    cpy,           \* per handler goroutine: next element of a block copy
    closing,       \* the Close call in progress: its loop and position
    registerCalls, \* RegisterFunctionHandler calls made
    closeCalls,    \* Close calls made
    closeLog,      \* the Close attempts: <<kind, index, failed, Close call>>, in order
    atClose,       \* the last Close call: the requests pending then, when it returned
    submitted,     \* every request the adapters created, by id
    events,        \* what the handler goroutines did, in order
    file,          \* the checkpoint file: whether it exists, and its bytes
    saving,        \* the saveState call in progress: its position, its StateObject
    saved,         \* the store when the last saveState began, and whether it was written
    restored,      \* whether the engine was restored from the file, and the store then
    fatal,         \* log.Fatal was called: the process has exited
    restarts,      \* engines constructed after the first
    booting        \* the NewServer call in progress: its position, what it restores

store == <<DiscreteInputs, Coils, HoldingRegisters, InputRegisters>>
transports == <<listeners, ports>>
adapters == <<link, blocked, submitted>>
serializer == <<pc, request, response, checked, cpy, events>>
application == <<closing, registerCalls, closeCalls, closeLog, atClose>>
checkpoint == <<file, saving, saved, restored, fatal, restarts, booting>>
vars ==
    <<store, function, transports, sendq, adapters, serializer, application, checkpoint>>

Mem == Store(DiscreteInputs, Coils, HoldingRegisters, InputRegisters)
SetMem(mem) ==
    /\ DiscreteInputs' = mem.di
    /\ Coils' = mem.co
    /\ HoldingRegisters' = mem.hr
    /\ InputRegisters' = mem.ir

\* A nil function value was called and the process has panicked, or
\* log.Fatal has ended it.
Crashed == fatal \/ \E s \in Serializers : pc[s] = "panic"

\* The server value exists for the application only once NewServer has
\* returned it.
Constructed == ~Crashed /\ booting.pc = "none"

\* An entry of the history: a step ev of the handler goroutine on request
\* req ("recv", "lookup", "invoke", "write") or a "register" call.  h is the
\* function value the step read, called or stored; mem is the store the
\* step found; behind, at a receive, counts the senders left blocked.
Event(ev, req, h, resp, ok, behind) ==
    [ev |-> ev, id |-> req.id, fn |-> req.frame.fn, conn |-> req.conn, h |-> h,
     resp |-> resp, bytes |-> Bytes(resp), ok |-> ok, behind |-> behind, mem |-> Mem]

NoClose ==
    [pending |-> {}, called |-> 0, returned |-> 0, done |-> FALSE, call |-> 0,
     listeners |-> 0, ports |-> 0]
NoFile == [exists |-> FALSE, bytes |-> <<>>]
EmptyState == Store(<<>>, <<>>, <<>>, <<>>)
\* NewServer has returned: the channel is made, nothing is left to restore.
Booted == [pc |-> "none", from |-> FALSE, so |-> EmptyState, chan |-> TRUE]
NotSaving == [pc |-> "none", so |-> EmptyState]
InitialMem == Store(Zeros(MemSize), Zeros(MemSize), Zeros(MemSize), Zeros(MemSize))

\* NewServer: zeroed maps, the default functions, an unbuffered channel and
\* the handler goroutine waiting on it.  No checkpoint file exists.
Idle ==
    /\ function = DefaultTable
    /\ listeners = <<>>
    /\ ports = <<>>
    /\ sendq = <<>>
    /\ link = [p \in Adapters |-> "none"]
    /\ blocked = [p \in Adapters |-> FALSE]
    /\ request = [s \in Serializers |-> NoRequest]
    /\ response = [s \in Serializers |-> NoResponse]
    /\ checked = [s \in Serializers |-> Nil]
    /\ cpy = [s \in Serializers |-> 0]
    /\ closing = [loop |-> "none", i |-> 0, n |-> 0]
    /\ registerCalls = 0
    /\ closeCalls = 0
    /\ closeLog = <<>>
    /\ atClose = NoClose
    /\ submitted = <<>>
    /\ events = <<>>
    /\ saving = NotSaving
    /\ saved = [mem |-> InitialMem, written |-> FALSE, calls |-> 0]
    /\ restarts = 0

Started ==
    /\ Idle
    /\ pc = [s \in Serializers |-> "recv"]
    /\ file = NoFile
    /\ restored = [from |-> FALSE, mem |-> InitialMem, runs |-> 1, bad |-> FALSE]
    /\ fatal = FALSE
    /\ booting = Booted

Init ==
    /\ DiscreteInputs = Zeros(MemSize)
    /\ Coils = Zeros(MemSize)
    /\ HoldingRegisters = Zeros(MemSize)
    /\ InputRegisters = Zeros(MemSize)
    /\ Started

\* ------------------------------------------------------ transport adapters
\* ListenTCP and ListenRTU register a transport with the server; a TCP
\* connection is accepted from an open listener, a serial adapter reads
\* from an open port.  Each adapter builds requests and sends them on
\* requestChan, blocking until the handler goroutine receives.
ListenTCP ==
    /\ Constructed
    /\ Len(listeners) < MaxListeners
    /\ listeners' = Append(listeners, "open")
    /\ UNCHANGED <<store, function, ports, sendq, adapters, serializer, application,
                   checkpoint>>

ListenRTU ==
    /\ Constructed
    /\ Len(ports) < MaxPorts
    /\ ports' = Append(ports, "open")
    /\ UNCHANGED <<store, function, listeners, sendq, adapters, serializer, application,
                   checkpoint>>

Accept(p) ==
    /\ ~Crashed
    /\ link[p] = "none"
    /\ \E i \in 1 .. Len(listeners) : listeners[i] = "open"
    /\ link' = [link EXCEPT ![p] = "tcp"]
    /\ UNCHANGED <<store, function, transports, sendq, blocked, submitted, serializer,
                   application, checkpoint>>

Attach(p) ==
    /\ ~Crashed
    /\ link[p] = "none"
    /\ \E i \in 1 .. Len(ports) : ports[i] = "open"
    /\ link' = [link EXCEPT ![p] = "rtu"]
    /\ UNCHANGED <<store, function, transports, sendq, blocked, submitted, serializer,
                   application, checkpoint>>

\* A serial adapter gets bytes only while its port is open; an accepted TCP
\* connection outlives its listener.
CanRead(p) ==
    \/ link[p] = "tcp"
    \/ link[p] = "rtu" /\ \E i \in 1 .. Len(ports) : ports[i] = "open"

Submit(p, frames, max) ==
    /\ ~Crashed
    /\ CanRead(p)
    /\ ~blocked[p]
    /\ Len(submitted) < max
    /\ \E frame \in frames :
          LET req == [id |-> Len(submitted) + 1, conn |-> p, frame |-> frame]
          IN  /\ submitted' = Append(submitted, req)
              /\ sendq' = Append(sendq, req)
    /\ blocked' = [blocked EXCEPT ![p] = TRUE]
    /\ UNCHANGED <<store, function, transports, link, serializer, application, checkpoint>>

\* ------------------------------------------------------ handler goroutine
\* request := <-s.requestChan: the receive takes the sender that has been
\* blocked the longest.
DequeueLast(q) == [req |-> q[Len(q)], rest |-> SubSeq(q, 1, Len(q) - 1)]
Dequeue(q) == [req |-> Head(q), rest |-> Tail(q)]

Receive(s) ==
    /\ ~Crashed
    /\ pc[s] = "recv"
    /\ sendq # <<>>
    /\ LET req == Dequeue(sendq).req
       IN  /\ request' = [request EXCEPT ![s] = req]
           /\ blocked' = [blocked EXCEPT ![req.conn] = FALSE]
           /\ events' = Append(events,
                 Event("recv", req, Entry(function, GetFunction(req.frame)), NoResponse,
                       TRUE, Len(sendq) - 1))
    /\ sendq' = Dequeue(sendq).rest
    /\ pc' = [pc EXCEPT ![s] = "handle"]
    /\ UNCHANGED <<store, function, transports, link, submitted, response, checked, cpy,
                   application, checkpoint>>

\* handle, lines 80-83 and 86-92: copy the frame, test the table entry; an
\* empty entry gives IllegalFunction, attached because it is not &Success.
AbsentCleared(resp) == SetException(SetData(resp, <<>>), IllegalFunction)
Absent(resp) == SetException(resp, IllegalFunction)

Lookup(s) ==
    /\ ~Crashed
    /\ pc[s] = "handle"
    /\ LET frame == request[s].frame
           h == Entry(function, GetFunction(frame))
       IN  /\ checked' = [checked EXCEPT ![s] = h]
           /\ events' = Append(events,
                 Event("lookup", request[s], h, NoResponse, TRUE, 0))
           /\ IF h # Nil
              THEN /\ response' = [response EXCEPT ![s] = Copy(frame)]
                   /\ pc' = [pc EXCEPT ![s] = "call"]
              ELSE /\ response' = [response EXCEPT ![s] = Absent(Copy(frame))]
                   /\ pc' = [pc EXCEPT ![s] = "write"]
    /\ UNCHANGED <<store, function, transports, sendq, adapters, request, cpy,
                   application, checkpoint>>

\* handle, lines 85 and 90-92: attach the payload, then the exception unless
\* it is &Success.
Attach2(resp, res) ==
    IF res.exception.ref # "Success"
    THEN SetException(SetData(resp, res.data), res.exception)
    ELSE SetData(resp, res.data)

\* The function value line 84 calls: the entry line 83 tested, or the
\* entry as it is now (the table is read again without synchronisation).
Callees(s) == {checked[s], Entry(function, GetFunction(request[s].frame))}

Invoke(s) ==
    /\ ~Crashed
    /\ pc[s] = "call"
    /\ \E h \in Callees(s) :
          LET data == GetData(request[s].frame)
              ev == Event("invoke", request[s], h, NoResponse, TRUE, 0)
          IN  /\ events' = Append(events, ev)
              /\ IF h = Nil
                 THEN /\ pc' = [pc EXCEPT ![s] = "panic"]
                      /\ UNCHANGED <<store, response, cpy>>
                 ELSE IF h = "WriteHoldingRegisters" /\ BlockLengthOk(data)
                         /\ CopyCount(data) > 0
                 THEN /\ pc' = [pc EXCEPT ![s] = "copy"]
                      /\ cpy' = [cpy EXCEPT ![s] = 1]
                      /\ UNCHANGED <<store, response>>
                 ELSE LET res == Exec(h, Mem, data)
                      IN  /\ SetMem(res.mem)
                          /\ response' = [response EXCEPT ![s] = Attach2(@, res)]
                          /\ pc' = [pc EXCEPT ![s] = "write"]
                          /\ UNCHANGED cpy
    /\ UNCHANGED <<function, transports, sendq, adapters, request, checked,
                   application, checkpoint>>

\* WriteHoldingRegisters in progress: move one element; after the last one
\* return to handle, which attaches the result.
CopyElement(s) ==
    /\ ~Crashed
    /\ pc[s] = "copy"
    /\ LET data == GetData(request[s].frame)
           hr == CopyStep(HoldingRegisters, data, cpy[s])
       IN  /\ HoldingRegisters' = hr
           /\ IF cpy[s] < CopyCount(data)
              THEN /\ cpy' = [cpy EXCEPT ![s] = @ + 1]
                   /\ UNCHANGED <<pc, response>>
              ELSE /\ cpy' = [cpy EXCEPT ![s] = 0]
                   /\ pc' = [pc EXCEPT ![s] = "write"]
                   /\ response' = [response EXCEPT ![s] =
                         Attach2(@, BlockResult(Mem, data))]
    /\ UNCHANGED <<DiscreteInputs, Coils, InputRegisters, function, transports, sendq,
                   adapters, request, checked, events, application, checkpoint>>

\* request.conn.Write(response.Bytes()): the write succeeds or fails, its
\* result is dropped, and the loop goes back to the receive.
AfterWriteReturn(ok) == IF ok THEN "recv" ELSE "done"
AfterWrite(ok) == "recv"

\* The connection the response is written to: request.conn.
ConnOfFirst(req) == submitted[1].conn
Conn(req) == req.conn

Write(s, results) ==
    /\ ~Crashed
    /\ pc[s] = "write"
    /\ \E ok \in results :
          /\ events' = Append(events,
                Event("write", [request[s] EXCEPT !.conn = Conn(request[s])],
                      checked[s], response[s], ok, 0))
          /\ pc' = [pc EXCEPT ![s] = AfterWrite(ok)]
    /\ request' = [request EXCEPT ![s] = NoRequest]
    /\ response' = [response EXCEPT ![s] = NoResponse]
    /\ UNCHANGED <<store, function, transports, sendq, adapters, checked, cpy,
                   application, checkpoint>>

Serve(s, results) ==
    Receive(s) \/ Lookup(s) \/ Invoke(s) \/ CopyElement(s) \/ Write(s, results)

\* ------------------------------------------------------------ application
RegisterCodes == {6, 65}
RegisterHandlers == {"FixedHandler", "FailingHandler", Nil}

\* s.function[funcCode] = function
RegisteredAlone(table, funcCode, h) == [c \in {funcCode} |-> h]
RegisteredIfPresent(table, funcCode, h) ==
    IF Entry(table, funcCode) # Nil THEN Stored(table, funcCode, h) ELSE table
Registered(table, funcCode, h) == Stored(table, funcCode, h)

RegisterFunctionHandler(funcCode, h) ==
    /\ Constructed
    /\ registerCalls < MaxRegisterCalls
    /\ registerCalls' = registerCalls + 1
    /\ function' = Registered(function, funcCode, h)
    /\ events' = Append(events,
          Event("register", [NoRequest EXCEPT !.frame.fn = funcCode], h, NoResponse,
                TRUE, 0))
    /\ UNCHANGED <<store, transports, sendq, adapters, pc, request, response, checked, cpy,
                   closing, closeCalls, closeLog, atClose, checkpoint>>

\* Close: range over the listeners, then over the ports, closing each and
\* dropping the error.
Pending ==
    {sendq[i].id : i \in 1 .. Len(sendq)}
        \cup {request[s].id : s \in {t \in Serializers : request[t].id # 0}}

\* Close does nothing to requestChan.
ChannelDrained(q) == <<>>
ChannelAfterClose(q) == q

Returned == [loop |-> "none", i |-> 0, n |-> 0]

CloseStart ==
    /\ Constructed
    /\ closing.loop = "none"
    /\ closeCalls < MaxCloseCalls
    /\ closeCalls' = closeCalls + 1
    /\ closing' = [loop |-> "listeners", i |-> 1, n |-> Len(listeners)]
    /\ atClose' = [pending |-> Pending, called |-> Len(events), returned |-> 0,
                   done |-> FALSE, call |-> closeCalls + 1,
                   listeners |-> Len(listeners), ports |-> Len(ports)]
    /\ sendq' = ChannelAfterClose(sendq)
    /\ UNCHANGED <<store, function, transports, adapters, serializer, registerCalls,
                   closeLog, checkpoint>>

AfterCloseReturn(err) == IF err THEN "return" ELSE "next"
AfterClose(err) == "next"

CloseListener ==
    /\ ~Crashed
    /\ closing.loop = "listeners"
    /\ IF closing.i <= closing.n
       THEN \E err \in BOOLEAN :
               /\ listeners' = [listeners EXCEPT ![closing.i] = "closed"]
               /\ closeLog' = Append(closeLog, <<"listener", closing.i, err, closeCalls>>)
               /\ closing' = IF AfterClose(err) = "next"
                             THEN [closing EXCEPT !.i = @ + 1]
                             ELSE Returned
       ELSE /\ closing' = [loop |-> "ports", i |-> 1, n |-> Len(ports)]
            /\ UNCHANGED <<listeners, closeLog>>
    /\ atClose' = IF closing'.loop = "none"
                  THEN [atClose EXCEPT !.returned = Len(events), !.done = TRUE]
                  ELSE atClose
    /\ UNCHANGED <<store, function, ports, sendq, adapters, serializer, registerCalls,
                   closeCalls, checkpoint>>

ClosePort ==
    /\ ~Crashed
    /\ closing.loop = "ports"
    /\ IF closing.i <= closing.n
       THEN \E err \in BOOLEAN :
               /\ ports' = [ports EXCEPT ![closing.i] = "closed"]
               /\ closeLog' = Append(closeLog, <<"port", closing.i, err, closeCalls>>)
               /\ closing' = IF AfterClose(err) = "next"
                             THEN [closing EXCEPT !.i = @ + 1]
                             ELSE Returned
       ELSE /\ closing' = Returned
            /\ UNCHANGED <<ports, closeLog>>
    /\ atClose' = IF closing'.loop = "none"
                  THEN [atClose EXCEPT !.returned = Len(events), !.done = TRUE]
                  ELSE atClose
    /\ UNCHANGED <<store, function, listeners, sendq, adapters, serializer, registerCalls,
                   closeCalls, checkpoint>>

Close == CloseStart \/ CloseListener \/ ClosePort

\* -------------------------------------------------------------- checkpoint
\* encoding/gob, as far as a StateObject needs it.  An unsigned integer
\* below 128 is one byte; otherwise the negated byte count followed by the
\* big-endian bytes.  A struct is its non-empty fields in order, each as
\* the distance from the field sent before it and the value, then a 0.  A
\* []byte is its length and its bytes, a []uint16 its length and its
\* elements as unsigned integers.
GobUint(v) ==
    IF v < 128 THEN <<v>> ELSE IF v < 256 THEN <<255, v>> ELSE <<254, Hi(v), Lo(v)>>

RECURSIVE GobUintSeq(_)
GobUintSeq(vs) == IF vs = <<>> THEN <<>> ELSE GobUint(Head(vs)) \o GobUintSeq(Tail(vs))

GobBytes(bs) == GobUint(Len(bs)) \o bs
GobUints(vs) == GobUint(Len(vs)) \o GobUintSeq(vs)

StateFields(so) ==
    <<[k |-> 1, raw |-> TRUE, v |-> so.di], [k |-> 2, raw |-> TRUE, v |-> so.co],
      [k |-> 3, raw |-> FALSE, v |-> so.hr], [k |-> 4, raw |-> FALSE, v |-> so.ir]>>

RECURSIVE EncodeFields(_, _)
EncodeFields(fields, prev) ==
    IF fields = <<>> THEN <<0>>
    ELSE LET f == Head(fields)
         IN  IF f.v = <<>> THEN EncodeFields(Tail(fields), prev)
             ELSE GobUint(f.k - prev)
                      \o (IF f.raw THEN GobBytes(f.v) ELSE GobUints(f.v))
                      \o EncodeFields(Tail(fields), f.k)

GobEncode(so) == EncodeFields(StateFields(so), 0)

Failed == [ok |-> FALSE, v |-> <<>>, next |-> 0]
Read(v, next) == [ok |-> TRUE, v |-> v, next |-> next]

ReadUint(bs, pos) ==
    IF pos > Len(bs) THEN Failed
    ELSE IF bs[pos] < 128 THEN Read(bs[pos], pos + 1)
    ELSE IF bs[pos] = 255 /\ pos + 1 <= Len(bs) THEN Read(bs[pos + 1], pos + 2)
    ELSE IF bs[pos] = 254 /\ pos + 2 <= Len(bs)
         THEN Read(U16(bs[pos + 1], bs[pos + 2]), pos + 3)
    ELSE Failed

RECURSIVE ReadUints(_, _, _)
ReadUints(bs, pos, n) ==
    IF n = 0 THEN Read(<<>>, pos)
    ELSE LET u == ReadUint(bs, pos)
         IN  IF ~u.ok THEN Failed
             ELSE LET more == ReadUints(bs, u.next, n - 1)
                  IN  IF ~more.ok THEN Failed ELSE Read(<<u.v>> \o more.v, more.next)

ReadSlice(bs, pos, raw) ==
    LET n == ReadUint(bs, pos)
    IN  IF ~n.ok THEN Failed
        ELSE IF ~raw THEN ReadUints(bs, n.next, n.v)
        ELSE IF n.next + n.v - 1 > Len(bs) THEN Failed
        ELSE Read(SubSeq(bs, n.next, n.next + n.v - 1), n.next + n.v)

SetField(so, k, v) ==
    CASE k = 1 -> [so EXCEPT !.di = v]
      [] k = 2 -> [so EXCEPT !.co = v]
      [] k = 3 -> [so EXCEPT !.hr = v]
      [] OTHER -> [so EXCEPT !.ir = v]

RECURSIVE DecodeFields(_, _, _, _)
DecodeFields(bs, pos, prev, so) ==
    LET delta == ReadUint(bs, pos)
    IN  IF ~delta.ok THEN [ok |-> FALSE, so |-> so]
        ELSE IF delta.v = 0 THEN [ok |-> TRUE, so |-> so]
        ELSE IF prev + delta.v > 4 THEN [ok |-> FALSE, so |-> so]
        ELSE LET k == prev + delta.v
                 val == ReadSlice(bs, delta.next, k <= 2)
             IN  IF ~val.ok THEN [ok |-> FALSE, so |-> so]
                 ELSE DecodeFields(bs, val.next, k, SetField(so, k, val.v))

\* dec.Decode(&so) into a zero StateObject.
GobDecode(bs) == DecodeFields(bs, 1, 0, EmptyState)

\* if err != nil { log.Fatal(err) }: an error of a checkpoint step ends the
\* process.
AfterErrorLogged(step) == FALSE
AfterError(step) == TRUE

\* saveState: the StateObject shares the four slices with the server; the
\* encoder reads them one after the other, then the file is written.  A
\* failed write may leave a shorter file, and log.Fatal ends the process.
SaveStart ==
    /\ Constructed
    /\ saving.pc = "none"
    /\ saved.calls < MaxSaves
    /\ saving' = [pc |-> "di", so |-> EmptyState]
    /\ saved' = [mem |-> Mem, written |-> FALSE, calls |-> saved.calls + 1]
    /\ UNCHANGED <<store, function, transports, sendq, adapters, serializer, application,
                   file, restored, fatal, restarts, booting>>

SaveEncode ==
    /\ ~Crashed
    /\ saving.pc \in {"di", "co", "hr", "ir"}
    /\ \/ /\ saving' =
                CASE saving.pc = "di" ->
                        [pc |-> "co", so |-> [saving.so EXCEPT !.di = DiscreteInputs]]
                  [] saving.pc = "co" ->
                        [pc |-> "hr", so |-> [saving.so EXCEPT !.co = Coils]]
                  [] saving.pc = "hr" ->
                        [pc |-> "ir", so |-> [saving.so EXCEPT !.hr = HoldingRegisters]]
                  [] OTHER ->
                        [pc |-> "file", so |-> [saving.so EXCEPT !.ir = InputRegisters]]
          /\ UNCHANGED fatal
       \/ /\ saving.pc = "ir"
          /\ saving' = NotSaving
          /\ fatal' = AfterError("encode")
    /\ UNCHANGED <<store, function, transports, sendq, adapters, serializer, application,
                   file, saved, restored, restarts, booting>>

Truncations(bytes) ==
    {[exists |-> TRUE, bytes |-> SubSeq(bytes, 1, n)] :
        n \in {0, Len(bytes) \div 2, Len(bytes) - 1}}

SaveWrite ==
    /\ ~Crashed
    /\ saving.pc = "file"
    /\ LET bytes == GobEncode(saving.so)
       IN  \/ /\ file' = [exists |-> TRUE, bytes |-> bytes]
              /\ saved' = [saved EXCEPT !.written = TRUE]
              /\ UNCHANGED fatal
           \/ /\ file' \in Truncations(bytes) \cup {file}
              /\ fatal' = AfterError("write")
              /\ UNCHANGED saved
    /\ saving' = NotSaving
    /\ UNCHANGED <<store, function, transports, sendq, adapters, serializer, application,
                   restored, restarts, booting>>

saveState == SaveStart \/ SaveEncode \/ SaveWrite

\* restoreState, lines 162-165.
RestoreSwapped(so) == Store(so.co, so.di, so.hr, so.ir)
RestoreFields(so) == Store(so.di, so.co, so.hr, so.ir)

\* restoreState up to line 160: whether log.Fatal was called, whether a
\* state was decoded, and the store lines 162-165 will assign.  Without a
\* file the allocated maps stay.
restoreState(opens) ==
    IF ~file.exists THEN [failed |-> FALSE, from |-> FALSE, mem |-> InitialMem]
    ELSE IF ~opens THEN [failed |-> AfterError("open"), from |-> FALSE, mem |-> InitialMem]
    ELSE IF ~GobDecode(file.bytes).ok
         THEN [failed |-> AfterError("decode"), from |-> FALSE, mem |-> InitialMem]
    ELSE [failed |-> FALSE, from |-> TRUE, mem |-> RestoreFields(GobDecode(file.bytes).so)]

\* What NewServer does after the allocation and the default functions, in
\* order: the four assignments of restoreState, make(chan), go s.handler().
BootOrderHandlerFirst == <<"chan", "go", "di", "co", "hr", "ir">>
BootOrder == <<"di", "co", "hr", "ir", "chan", "go">>
RestoreSteps == {"di", "co", "hr", "ir"}
BootSteps(from) == SelectSeq(BootOrder, LAMBDA b : from \/ b \notin RestoreSteps)
FirstBoot(from) == Head(BootSteps(from))
NextBoot(b, from) ==
    LET steps == BootSteps(from)
        i == CHOOSE k \in 1 .. Len(steps) : steps[k] = b
    IN  IF i = Len(steps) THEN "none" ELSE steps[i + 1]

\* The state NewServer has built when restoreState has decoded the file or
\* found none: r is what restoreState found.
Construction(r, bad) ==
    /\ fatal' = r.failed
    /\ restored' = [from |-> FALSE, mem |-> InitialMem, runs |-> 1, bad |-> bad]
    /\ booting' = IF r.failed
                  THEN [pc |-> "exit", from |-> FALSE, so |-> EmptyState, chan |-> FALSE]
                  ELSE [pc |-> FirstBoot(r.from), from |-> r.from, so |-> r.mem,
                        chan |-> FALSE]
    /\ pc' = [s \in Serializers |-> "off"]
    /\ function' = DefaultTable
    /\ listeners' = <<>>
    /\ ports' = <<>>
    /\ sendq' = <<>>
    /\ link' = [p \in Adapters |-> "none"]
    /\ blocked' = [p \in Adapters |-> FALSE]
    /\ request' = [s \in Serializers |-> NoRequest]
    /\ response' = [s \in Serializers |-> NoResponse]
    /\ checked' = [s \in Serializers |-> Nil]
    /\ cpy' = [s \in Serializers |-> 0]
    /\ closing' = Returned
    /\ atClose' = NoClose
    /\ submitted' = <<>>
    /\ events' = <<>>
    /\ saving' = NotSaving
    /\ saved' = [saved EXCEPT !.calls = 0]

\* A new process constructs a new engine: NewServer allocates the maps,
\* installs the default functions and calls restoreState, which ends the
\* process if the file exists and cannot be opened or decoded.
NewServerStart ==
    /\ restarts < MaxRestarts
    /\ restarts' = restarts + 1
    /\ SetMem(InitialMem)
    /\ \E opens \in BOOLEAN :
          Construction(restoreState(opens),
                       file.exists /\ (~opens \/ ~GobDecode(file.bytes).ok))
    /\ UNCHANGED <<registerCalls, closeCalls, closeLog, file>>

\* restoreState, lines 162-165, one assignment at a time.
RestoreAssign ==
    /\ ~fatal
    /\ booting.pc \in RestoreSteps
    /\ CASE booting.pc = "di" ->
               /\ DiscreteInputs' = booting.so.di
               /\ UNCHANGED <<Coils, HoldingRegisters, InputRegisters>>
         [] booting.pc = "co" ->
               /\ Coils' = booting.so.co
               /\ UNCHANGED <<DiscreteInputs, HoldingRegisters, InputRegisters>>
         [] booting.pc = "hr" ->
               /\ HoldingRegisters' = booting.so.hr
               /\ UNCHANGED <<DiscreteInputs, Coils, InputRegisters>>
         [] OTHER ->
               /\ InputRegisters' = booting.so.ir
               /\ UNCHANGED <<DiscreteInputs, Coils, HoldingRegisters>>
    /\ booting' = [booting EXCEPT !.pc = NextBoot(@, booting.from)]
    /\ restored' = IF booting.pc = "ir"
                   THEN [restored EXCEPT !.from = TRUE, !.mem = booting.so]
                   ELSE restored
    /\ UNCHANGED <<function, transports, sendq, adapters, serializer, application,
                   file, saving, saved, fatal, restarts>>

\* s.requestChan = make(chan *Request)
MakeChan ==
    /\ ~fatal
    /\ booting.pc = "chan"
    /\ booting' = [booting EXCEPT !.pc = NextBoot(@, booting.from), !.chan = TRUE]
    /\ UNCHANGED <<store, function, transports, sendq, adapters, serializer, application,
                   file, saving, saved, restored, fatal, restarts>>

\* go s.handler(); return s
StartHandler ==
    /\ ~fatal
    /\ booting.pc = "go"
    /\ booting' = [booting EXCEPT !.pc = NextBoot(@, booting.from)]
    /\ pc' = [s \in Serializers |-> "recv"]
    /\ UNCHANGED <<store, function, transports, sendq, adapters, request, response,
                   checked, cpy, events, application, file, saving, saved, restored,
                   fatal, restarts>>

NewServer == NewServerStart \/ RestoreAssign \/ MakeChan \/ StartHandler

\* ---------------------------------------------------------- specifications
\* The engine under concurrent clients and an application that overrides
\* handlers.
Next ==
    \/ ListenTCP
    \/ \E p \in Adapters : Accept(p)
    \/ \E p \in Adapters : Submit(p, AllFrames, MaxRequests)
    \/ \E s \in Serializers : Serve(s, BOOLEAN)
    \/ \E code \in RegisterCodes, h \in RegisterHandlers : RegisterFunctionHandler(code, h)

Spec == Init /\ [][Next]_vars

\* Register reads and writes only, every response write succeeding.
NextRW ==
    \/ ListenTCP
    \/ \E p \in Adapters : Accept(p)
    \/ \E p \in Adapters : Submit(p, RegisterFrames, MaxReadWrites)
    \/ \E s \in Serializers : Serve(s, {TRUE})

SpecRW == Init /\ [][NextRW]_vars

\* The engine with its transports opened and closed by the application.
NextClose ==
    \/ ListenTCP
    \/ ListenRTU
    \/ \E p \in Adapters : Accept(p)
    \/ \E p \in Adapters : Attach(p)
    \/ \E p \in Adapters : Submit(p, CloseFrames, MaxRequests)
    \/ \E s \in Serializers : Serve(s, {TRUE})
    \/ Close

SpecClose == Init /\ [][NextClose]_vars

\* The engine under a fair scheduler: the handler goroutine, whenever it
\* can take a step, eventually takes one, and every response write returns.
NextLive ==
    \/ ListenTCP
    \/ \E p \in Adapters : Accept(p)
    \/ \E p \in Adapters : Submit(p, LiveFrames, MaxRequests)
    \/ \E s \in Serializers : Serve(s, BOOLEAN)
    \/ \E code \in RegisterCodes, h \in RegisterHandlers : RegisterFunctionHandler(code, h)

Fairness == \A s \in Serializers : WF_vars(Serve(s, BOOLEAN))

SpecLive == Init /\ [][NextLive]_vars /\ Fairness

\* Engines that save their state and are constructed again, from any
\* contents of the register arrays.
ByteValues == {0, 255}
WordValues == {0, 200, 300}

InitCheckpoint ==
    /\ DiscreteInputs \in [1 .. MemSize -> ByteValues]
    /\ Coils \in [1 .. MemSize -> ByteValues]
    /\ HoldingRegisters \in [1 .. MemSize -> WordValues]
    /\ InputRegisters \in [1 .. MemSize -> WordValues]
    /\ Started

NextCheckpoint == saveState \/ NewServer

SpecCheckpoint == InitCheckpoint /\ [][NextCheckpoint]_vars

\* The engine with an application that registers handlers of its own, none
\* of them nil.
HandlerFrames == {CustomFrame, UnknownFrame, WriteRegisterFrame(0, 300)} \cup BlockFrames
OwnHandlers == {"FixedHandler", "FailingHandler", "OwnSuccessHandler"}

NextHandlers ==
    \/ ListenTCP
    \/ \E p \in Adapters : Accept(p)
    \/ \E p \in Adapters : Submit(p, HandlerFrames, MaxRequests)
    \/ \E s \in Serializers : Serve(s, {TRUE})
    \/ \E code \in RegisterCodes, h \in OwnHandlers : RegisterFunctionHandler(code, h)

SpecHandlers == Init /\ [][NextHandlers]_vars

\* Engines that serve requests, save their state and are constructed again.
\* The first engine was constructed where a checkpoint file may already
\* lie: none, one that does not decode, one of an engine of this size, one
\* whose arrays have another length.
RestartFrames == {WriteRegisterFrame(0, 300), WriteCoilFrame(0, TRUE)} \cup BlockFrames
Marked(n, v) == [i \in 1 .. n |-> IF i = 1 THEN v ELSE 0]
SameSizeState == Store(Marked(MemSize, 255), Zeros(MemSize), Marked(MemSize, 200),
                       Marked(MemSize, 300))
OtherSizeState == Store(Zeros(MemSize + 1), Zeros(MemSize + 1), Zeros(MemSize + 1),
                        Zeros(MemSize + 1))
FileOf(bytes) == [exists |-> TRUE, bytes |-> bytes]
InitialFiles ==
    {NoFile, FileOf(<<9>>), FileOf(GobEncode(SameSizeState)), FileOf(GobEncode(OtherSizeState))}

InitRestart ==
    /\ file \in InitialFiles
    /\ Idle
    /\ LET r == restoreState(TRUE)
       IN  /\ DiscreteInputs = r.mem.di
           /\ Coils = r.mem.co
           /\ HoldingRegisters = r.mem.hr
           /\ InputRegisters = r.mem.ir
           /\ fatal = r.failed
           /\ pc = [s \in Serializers |-> IF r.failed THEN "off" ELSE "recv"]
           /\ restored = [from |-> r.from, mem |-> r.mem, runs |-> 1,
                          bad |-> ~GobDecode(file.bytes).ok /\ file.exists]
           /\ booting = IF r.failed
                         THEN [pc |-> "exit", from |-> FALSE, so |-> EmptyState,
                               chan |-> FALSE]
                         ELSE Booted

NextRestart ==
    \/ ListenTCP
    \/ \E p \in Adapters : Accept(p)
    \/ \E p \in Adapters : Submit(p, RestartFrames, MaxRequests)
    \/ \E s \in Serializers : Serve(s, {TRUE})
    \/ saveState
    \/ NewServer

SpecRestart == InitRestart /\ [][NextRestart]_vars

\* What the handler goroutine has given to the log package: handle prints
\* one line per request, its function code and data (line 78); handler
\* prints nothing.
LogLine(e) == [line |-> "function", id |-> e.id, fn |-> e.fn]
Log ==
    LET handled == SelectSeq(events, LAMBDA e : e.ev = "lookup")
    IN  [i \in 1 .. Len(handled) |-> LogLine(handled[i])]

\* ----------------------------------------------------------------- history
EventsOf(ev) == SelectSeq(events, LAMBDA e : e.ev = ev)
EventIndex(ev, id) ==
    IF \E i \in 1 .. Len(events) : events[i].ev = ev /\ events[i].id = id
    THEN CHOOSE i \in 1 .. Len(events) : events[i].ev = ev /\ events[i].id = id
    ELSE 0
Count(ev, id) ==
    Cardinality({i \in 1 .. Len(events) : events[i].ev = ev /\ events[i].id = id})
Happened(ev, id) == EventIndex(ev, id) # 0
TheEvent(ev, id) == events[EventIndex(ev, id)]
Dequeued == [i \in 1 .. Len(EventsOf("recv")) |-> EventsOf("recv")[i].id]
Quiescent == \A s \in Serializers : pc[s] = "recv"
\* The store left by running, one after another and each to its end, the
\* handlers invoked for the requests ids, in that order.
RECURSIVE RunInOrder(_, _)
RunInOrder(ids, mem) ==
    IF ids = <<>> THEN mem
    ELSE LET id == Head(ids)
             h == IF Happened("invoke", id) THEN TheEvent("invoke", id).h ELSE Nil
         IN  RunInOrder(Tail(ids),
                        IF h = Nil THEN mem
                        ELSE Exec(h, mem, GetData(submitted[id].frame)).mem)

\* C1: whenever the handler goroutine is back at its receive, the four
\* register arrays hold what the handlers of the requests dequeued so far
\* leave when run one after another in dequeue order; and never does more
\* than one request sit between its receive and its response write.
C1_SequentialStore ==
    /\ Cardinality({s \in Serializers : request[s].id # 0}) <= 1
    /\ Quiescent => Mem = RunInOrder(Dequeued, InitialMem)

\* Two requests from two connections, the second blocked on the channel
\* while the first was received, both processed, both with an effect.
C1_Witness ==
    /\ Quiescent
    /\ Len(EventsOf("write")) = 2
    /\ \E i \in 1 .. Len(events) : events[i].ev = "recv" /\ events[i].behind >= 1
    /\ submitted[1].conn # submitted[2].conn
    /\ HoldingRegisters[1] = 1
    /\ HoldingRegisters[2] = 300

\* C2: requests are received in the order their senders blocked on the
\* channel; the response of each is written before anything is done for
\* the next one, so the responses are written in receive order.
C2_OneAtATimeInOrder ==
    /\ \A n \in 1 .. Len(Dequeued) : Dequeued[n] = n
    /\ \A n \in 1 .. Len(Dequeued) - 1 :
          /\ Happened("write", Dequeued[n])
          /\ \A j \in 1 .. Len(events) :
                (events[j].id = Dequeued[n + 1] /\ events[j].ev # "register")
                    => EventIndex("write", Dequeued[n]) < j
    /\ LET written == EventsOf("write")
       IN  \A n \in 1 .. Len(written) : written[n].id = Dequeued[n]
    /\ \A id \in 1 .. Len(submitted) :
          /\ Count("recv", id) <= 1
          /\ Happened("write", id) => EventIndex("recv", id) < EventIndex("write", id)

\* Two requests, the second blocked behind the first, each looked up,
\* invoked and answered.
C2_Witness ==
    /\ Len(EventsOf("write")) = 2
    /\ Len(EventsOf("invoke")) = 2
    /\ \E i \in 1 .. Len(events) : events[i].ev = "recv" /\ events[i].behind = 1
    /\ EventIndex("write", 1) < EventIndex("lookup", 2)

\* C3: when the dispatcher finds no handler for a request's function code,
\* the response carries IllegalFunction, only SetException was called on
\* it (its data is the data of the frame copy), no handler was invoked
\* for it, and the store at its response write is the store at its receive.
C3_UnregisteredIsIllegalFunction ==
    \A j \in 1 .. Len(events) :
        LET w == events[j]
        IN  (w.ev = "write" /\ TheEvent("lookup", w.id).h = Nil) =>
               /\ w.resp.exc = IllegalFunction
               /\ w.resp.calls = <<"SetException">>
               /\ w.resp.data = GetData(submitted[w.id].frame)
               /\ w.bytes = <<w.fn + 128, IllegalFunction.code>>
               /\ ~Happened("invoke", w.id)
               /\ w.mem = TheEvent("recv", w.id).mem

\* Function code 99, never registered, answered after an earlier request
\* wrote a register.
C3_Witness ==
    \E j \in 1 .. Len(events) :
        /\ events[j].ev = "write"
        /\ events[j].fn = 99
        /\ events[j].resp.exc = IllegalFunction
        /\ events[j].resp.data = <<9>>
        /\ events[j].mem.hr # Zeros(MemSize)

\* The handler most recently registered for a code before history entry j
\* (the default function if none was).
LastRegister(code, j) ==
    LET calls == {i \in 1 .. j - 1 : events[i].ev = "register" /\ events[i].fn = code}
    IN  IF calls = {} THEN 0 ELSE CHOOSE i \in calls : \A k \in calls : k <= i
RegisteredBefore(code, j) ==
    IF LastRegister(code, j) = 0 THEN DefaultFunction(code)
    ELSE events[LastRegister(code, j)].h

\* C4: a request whose dispatch begins after the latest registration for
\* its code invokes the handler registered by it; and whenever an invoked
\* handler returns (payload, &Success), the response data is that payload
\* and no exception is attached.
C4_RegisteredHandlerIsInvoked ==
    \A j \in 1 .. Len(events) :
        LET e == events[j]
        IN  /\ e.ev = "lookup" => e.h = RegisteredBefore(e.fn, j)
            /\ (e.ev = "invoke" /\ LastRegister(e.fn, j) < EventIndex("lookup", e.id))
                  => e.h = RegisteredBefore(e.fn, j)
            /\ (e.ev = "write" /\ LastRegister(e.fn, j) < EventIndex("lookup", e.id)
                    /\ RegisteredBefore(e.fn, j) # Nil)
                  => Happened("invoke", e.id)
            /\ (e.ev = "write" /\ Happened("invoke", e.id)
                    /\ TheEvent("invoke", e.id).h # Nil) =>
                  LET i == TheEvent("invoke", e.id)
                      res == Exec(i.h, i.mem, GetData(submitted[e.id].frame))
                  IN  res.exception = Success =>
                         /\ e.resp.data = res.data
                         /\ e.resp.exc = NoException
                         /\ e.bytes = <<e.fn>> \o res.data

\* Code 65 has no default handler; FixedHandler is registered for it, and a
\* request for 65 dispatched afterwards is answered with its bytes.
C4_Witness ==
    \E j \in 1 .. Len(events) :
        /\ events[j].ev = "write"
        /\ events[j].fn = 65
        /\ events[j].resp.data = FixedBytes
        /\ events[j].resp.exc = NoException
        /\ LastRegister(65, j) # 0
        /\ LastRegister(65, j) < EventIndex("lookup", events[j].id)

\* C5: every request is executed with the handler that was registered for
\* its code when it was dequeued.
C5_DequeuedUnaffected ==
    \A j \in 1 .. Len(events) :
        events[j].ev = "invoke" => events[j].h = TheEvent("recv", events[j].id).h

\* C8: a failed response write leaves the handler goroutine at its receive
\* with the store as the request's handler left it; the next request is
\* received and served from that store.
FailedWrite(j) == events[j].ev = "write" /\ ~events[j].ok
C8_WriteFailureIsLocal ==
    /\ \A s \in Serializers : pc[s] \in {"recv", "handle", "call", "copy", "write", "panic"}
    /\ \A j \in 1 .. Len(events) :
          FailedWrite(j) =>
             /\ j = Len(events) => (Mem = events[j].mem /\ Quiescent)
             /\ j < Len(events) =>
                   /\ events[j + 1].mem = events[j].mem
                   /\ events[j + 1].ev \in {"recv", "register"}

\* The write of request 1's response fails after its handler wrote a
\* register; request 2 is then received, served and answered.
C8_Witness ==
    /\ Happened("write", 1)
    /\ ~TheEvent("write", 1).ok
    /\ TheEvent("write", 1).mem.hr # Zeros(MemSize)
    /\ Happened("write", 2)
    /\ EventIndex("write", 1) < EventIndex("recv", 2)
    /\ HoldingRegisters # Zeros(MemSize)

\* Whether a request frame, served by the default functions, writes
\* holding register a.
WritesRegister(frame, a) ==
    \/ frame.fn = 6 /\ RegisterAddress(frame.data) = a
    \/ /\ frame.fn = 16
       /\ BlockLengthOk(frame.data)
       /\ a >= RegisterAddress(frame.data)
       /\ a < RegisterAddress(frame.data) + CopyCount(frame.data)

\* C10: with the default functions, a function 6 write of v to register a
\* and a later function 3 read of one register at a, with no request
\* between them that writes a, gives a read response without exception
\* whose data is the byte count 2 and the two bytes of v.
C10_WriteThenRead ==
    \A i \in 1 .. Len(Dequeued), k \in 1 .. Len(Dequeued) :
        LET wr == submitted[Dequeued[i]].frame
            rd == submitted[Dequeued[k]].frame
            a == RegisterAddress(wr.data)
        IN  ( /\ i < k
              /\ wr.fn = 6
              /\ rd.fn = 3
              /\ RegisterAddress(rd.data) = a
              /\ Second(rd.data) = 1
              /\ \A m \in (i + 1) .. (k - 1) :
                    ~WritesRegister(submitted[Dequeued[m]].frame, a)
              /\ Happened("write", Dequeued[k]) ) =>
                LET resp == TheEvent("write", Dequeued[k]).resp
                IN  /\ resp.exc = NoException
                    /\ Len(resp.data) = 3
                    /\ resp.data[1] = 2
                    /\ BytesToUint16(Tail(resp.data)) = <<Second(wr.data)>>

\* 300 written to register 0 by one connection, register 1 written by the
\* other, then register 0 read back as 300.
C10_Witness ==
    /\ Len(Dequeued) = 3
    /\ submitted[1].frame = WriteRegisterFrame(0, 300)
    /\ submitted[2].frame = WriteRegisterFrame(1, 1)
    /\ submitted[2].conn # submitted[1].conn
    /\ submitted[3].frame = ReadRegistersFrame(0, 1)
    /\ Happened("write", 3)
    /\ TheEvent("write", 3).resp.data = <<2, 1, 44>>

\* C7: a request that was blocked on the channel or being served when
\* Close was called stays on the channel or with the handler goroutine
\* until its response is written; after Close has returned the handler
\* goroutine is still in its loop; and no step of Close changes the
\* channel, the register arrays, the dispatch table or the handler
\* goroutine.
CloseStep == closing' # closing
C7_NotDiscarded ==
    /\ \A id \in atClose.pending :
          \/ \E i \in 1 .. Len(sendq) : sendq[i].id = id
          \/ \E s \in Serializers : request[s].id = id
          \/ Happened("write", id)
    /\ atClose.done =>
          \A s \in Serializers :
              /\ pc[s] \in {"recv", "handle", "call", "copy", "write"}
              /\ (pc[s] = "recv" /\ sendq # <<>>) => ENABLED Receive(s)
C7_CloseLeavesSerializerAlone ==
    /\ []C7_NotDiscarded
    /\ [][CloseStep => UNCHANGED <<sendq, store, function, serializer, adapters>>]_vars

\* Close was called with one request being served and another blocked on
\* the channel; the second was received after Close returned, and both
\* were answered.
C7_Witness ==
    /\ atClose.done
    /\ Cardinality(atClose.pending) = 2
    /\ \A id \in atClose.pending : Happened("write", id)
    /\ \E id \in atClose.pending : EventIndex("recv", id) > atClose.returned
    /\ \A i \in 1 .. Len(listeners) : listeners[i] = "closed"
    /\ Len(listeners) > 0

\* C6: an engine restored from a file that saveState wrote holds, in each
\* of the four arrays, element for element what the saving engine held
\* when saveState began.
C6_RoundTrip ==
    (restored.from /\ saved.written) =>
        /\ restored.mem = saved.mem
        /\ Mem = saved.mem
        /\ ~fatal

\* A restored engine whose four arrays differ from one another and hold
\* one-, two- and three-byte values.
C6_Witness ==
    /\ restored.from
    /\ saved.written
    /\ DiscreteInputs = <<255, 0>> \o Zeros(MemSize - 2)
    /\ Coils = <<0, 255>> \o Zeros(MemSize - 2)
    /\ HoldingRegisters = <<300, 200>> \o Zeros(MemSize - 2)
    /\ InputRegisters = <<0, 300>> \o Zeros(MemSize - 2)

\* C9: every request an adapter sends on the channel is eventually
\* received and served, and its response is eventually written.
C9_EveryRequestAnswered ==
    \A id \in 1 .. MaxRequests : (Len(submitted) >= id) ~> Happened("write", id)

\* C11: when a Close call has returned, every listener and every port that
\* was registered when it was called has had exactly one close attempt in
\* that call, whatever the attempts on the others returned; and no
\* transport has had more than one attempt in one call.
Attempts(kind, i, call) ==
    Cardinality({k \in 1 .. Len(closeLog) :
        closeLog[k][1] = kind /\ closeLog[k][2] = i /\ closeLog[k][4] = call})
C11_EachTransportClosedOnce ==
    /\ \A k \in 1 .. Len(closeLog) :
          Attempts(closeLog[k][1], closeLog[k][2], closeLog[k][4]) = 1
    /\ atClose.done =>
          /\ \A i \in 1 .. atClose.listeners : Attempts("listener", i, atClose.call) = 1
          /\ \A i \in 1 .. atClose.ports : Attempts("port", i, atClose.call) = 1

\* A listener and a port were registered; the close of the listener
\* failed, and the port was closed after it.
C11_Witness ==
    /\ atClose.done
    /\ atClose.listeners = 1
    /\ atClose.ports = 1
    /\ Len(closeLog) = 2
    /\ closeLog[1][1] = "listener" /\ closeLog[1][3]
    /\ closeLog[2][1] = "port"

\* C12: an engine constructed where the checkpoint file exists and cannot
\* be opened or decoded has ended in log.Fatal with no channel, no handler
\* goroutine, no request and the arrays as allocated; a saveState that
\* ended without writing the file has ended the process; and once
\* log.Fatal was called nothing happens but the construction of a new
\* engine by a new process.
C12_FatalStops ==
    /\ restored.bad =>
          /\ fatal
          /\ \A s \in Serializers : pc[s] = "off"
          /\ ~booting.chan
          /\ events = <<>> /\ submitted = <<>> /\ sendq = <<>>
          /\ Mem = InitialMem
    /\ (saved.calls > 0 /\ saving.pc = "none" /\ ~saved.written) => fatal
C12_CheckpointFailuresAreFatal ==
    /\ []C12_FatalStops
    /\ [][fatal => restarts' = restarts + 1]_vars

\* A saveState failed in the write and left a shorter file; the engine
\* constructed after it found the file and could not decode it.
C12_Witness ==
    /\ restored.bad
    /\ fatal
    /\ restarts >= 1
    /\ file \notin InitialFiles
    /\ ~GobDecode(file.bytes).ok
    /\ Len(file.bytes) > 1

\* The stores the engine has held at the instants at which no handler was
\* executing: the store it was constructed with, the store each step of
\* the handler goroutine found, and the present one unless a block copy is
\* under way.
StartStore == IF restored.from THEN restored.mem ELSE InitialMem
Instants ==
    {StartStore} \cup {events[j].mem : j \in 1 .. Len(events)}
        \cup (IF \E s \in Serializers : pc[s] = "copy" THEN {} ELSE {Mem})

\* C13: the four arrays saveState has encoded are, together, the store as it
\* was at one instant at which no handler was executing.
C13_SnapshotIsAtomic ==
    saving.pc = "file" => saving.so \in Instants

\* C14: the function value a dispatch calls is never nil, and it is one
\* that was registered for the request's code at some point between the
\* dispatch's test of the table entry and the call.
C14_DispatchNeverCallsNil ==
    \A j \in 1 .. Len(events) :
        events[j].ev = "invoke" =>
            /\ events[j].h # Nil
            /\ \E k \in EventIndex("lookup", events[j].id) .. j :
                  events[j].h = RegisteredBefore(events[j].fn, k)

\* C15: once NewServer has returned, each of the four register arrays has
\* MemSize elements (65536 in the source).
C15_ArraysKeepSize ==
    (booting.pc = "none" /\ ~fatal) =>
        /\ Len(DiscreteInputs) = MemSize
        /\ Len(Coils) = MemSize
        /\ Len(HoldingRegisters) = MemSize
        /\ Len(InputRegisters) = MemSize

\* C16: restoreState has run once for the engine; while one of its four
\* assignments is still to come there is no channel, no handler goroutine
\* and no request; the handler goroutine runs only when all four arrays
\* have been assigned, and the first store it finds is the restored one.
C16_RestoreBeforeHandlers ==
    /\ restored.runs = 1
    /\ booting.pc \in RestoreSteps =>
          /\ ~booting.chan
          /\ \A s \in Serializers : pc[s] = "off"
          /\ events = <<>> /\ sendq = <<>> /\ submitted = <<>>
    /\ (\E s \in Serializers : pc[s] # "off") =>
          /\ booting.pc = "none"
          /\ booting.from => restored.from
    /\ events # <<>> => events[1].mem = StartStore

\* An engine constructed after the first restored a file in four
\* assignments, and its handler goroutine then served a request on the
\* restored store.
C16_Witness ==
    /\ restarts >= 1
    /\ booting.from
    /\ restored.from
    /\ restored.mem = SameSizeState
    /\ Len(EventsOf("write")) >= 1
    /\ events[1].mem = SameSizeState

\* The exception a request's processing produced: the one its handler
\* returned, or IllegalFunction from handle when the entry was nil.
Produced(id) ==
    IF Happened("invoke", id)
    THEN Exec(TheEvent("invoke", id).h, TheEvent("invoke", id).mem,
              GetData(submitted[id].frame)).exception
    ELSE IllegalFunction

\* C17: SetException is called on a response if and only if the exception
\* produced has a value other than Success, and then with that exception;
\* and a handler's payload is attached before the exception.
C17_ExceptionIffNotSuccess ==
    \A j \in 1 .. Len(events) :
        LET w == events[j]
            attached == \E k \in 1 .. Len(w.resp.calls) : w.resp.calls[k] = "SetException"
        IN  w.ev = "write" =>
               /\ attached <=> Produced(w.id).code # Success.code
               /\ attached => w.resp.exc = Produced(w.id)
               /\ ~attached => w.resp.exc = NoException
               /\ (attached /\ Happened("invoke", w.id)) =>
                     w.resp.calls = <<"SetData", "SetException">>

C19_WriteFailureIsLogged ==
    \A j \in 1 .. Len(events) :
        (FailedWrite(j) /\ \E k \in (j + 1) .. Len(events) : events[k].ev = "recv") =>
            \E i \in 1 .. Len(Log) :
                Log[i].line = "write error" /\ Log[i].id = events[j].id

\* C20: the table entry of a code is at all times the function most
\* recently registered for it (the default function if none was), so that
\* is what a lookup reads; and a RegisterFunctionHandler call stores its
\* argument in the entry of its code, whatever was there, and leaves the
\* other 255 entries, the register arrays, the listeners and ports, the
\* channel and the handler goroutine as they were.
RegisterStep == registerCalls' # registerCalls
C20_EntryIsLastRegistered ==
    /\ \A code \in RegisterCodes \cup {3, 16, 99} :
          Entry(function, code) = RegisteredBefore(code, Len(events) + 1)
    /\ \A j \in 1 .. Len(events) :
          events[j].ev = "lookup" => events[j].h = RegisteredBefore(events[j].fn, j)
C20_RegisterReplacesOneEntry ==
    /\ []C20_EntryIsLastRegistered
    /\ [][RegisterStep =>
            LET call == events'[Len(events')]
            IN  /\ call.ev = "register"
                /\ Entry(function', call.fn) = call.h
                /\ \A c \in FuncCodes \ {call.fn} :
                      Entry(function', c) = Entry(function, c)
                /\ UNCHANGED <<store, transports, sendq, adapters, pc, request, response,
                               checked, cpy>>]_vars

\* FixedHandler was registered for code 65, which had no entry, while a
\* register had been written; a request for 65 was looked up afterwards
\* and found it, and the entry of code 6 is still the default function.
C20_Witness ==
    /\ \E j \in 1 .. Len(events) :
          /\ events[j].ev = "lookup"
          /\ events[j].fn = 65
          /\ events[j].h = "FixedHandler"
          /\ LastRegister(65, j) # 0
          /\ events[LastRegister(65, j)].mem.hr # Zeros(MemSize)
    /\ Entry(function, 6) = "WriteHoldingRegister"
    /\ Entry(function, 65) = "FixedHandler"

====
